---- MODULE Spec2Model ----
(***************************************************************************)
(* A model of the product recogniser (app/main.py, app/ai_engine.py,       *)
(* app/config.py, app/database.py): the FastAPI process with its startup   *)
(* (lifespan / load_models), the match pipeline process_search run by      *)
(* /search and by the Messenger background task handle_fb_image, the       *)
(* webhook handler handle_fb_webhook that schedules those tasks, and the   *)
(* registration handler add_product.                                       *)
(*                                                                         *)
(* Specifications.  Spec is the server from startup on, with /search,      *)
(* Messenger tasks and /add_product in two request slots, file names that  *)
(* never repeat and a page access token set.  SpecCrop and SpecRank run    *)
(* smart_crop and the ranking over rich inputs.  SpecCatalog lets the uuid *)
(* prefix of a file name repeat.                                           *)
(* SpecBot runs handle_fb_image with and without a page access token.      *)
(* SpecHook runs handle_fb_webhook over the bodies Messenger delivers.     *)
(*                                                                         *)
(* Numbers.  Floats are modelled in fixed point:                           *)
(*   - detection confidences in hundredths      (0.15  is 15)              *)
(*   - embedding components in hundredths       (1.0   is 100)             *)
(*   - dot products / scores in ten-thousandths (0.65  is 6500)            *)
(*   - round(score, 2) in hundredths            (0.65  is 65)              *)
(* Pixel coordinates are integers.                                         *)
(*                                                                         *)
(* The neural networks (YOLO-World, SigLIP, DINOv2), the Supabase store    *)
(* and the Messenger Graph API are external: the networks are fixed        *)
(* functions of the pixel content, the store and the network answer        *)
(* nondeterministically.                                                   *)
(***************************************************************************)
EXTENDS Integers, Sequences, FiniteSets, TLC

VARIABLES
    phase,       \* lifespan: "startup" | "serving" | "failed"
    models,      \* ai_engine.models: the set of keys of the dict
    loadCount,   \* how many times load_models() has been entered
    API_SECRET,  \* config.API_SECRET = os.getenv("API_SECRET")
    FB_PAGE_ACCESS_TOKEN,  \* main.FB_PAGE_ACCESS_TOKEN = os.getenv(...)
    products,    \* supabase table "products": the rows, in insertion order
    bucket,      \* supabase storage bucket "product-images": the objects
    task,        \* one record per request in flight (thread / handler)
    queue,       \* per slot: the background tasks added and not yet started
    hook         \* the last POST /webhook: its body and its response

vars ==
    <<phase, models, loadCount, API_SECRET, FB_PAGE_ACCESS_TOKEN, products, bucket, task,
      queue, hook>>

\* ------------------------------------------------------------------ bounds

\* Longest candidate list the store returns in the ranking specification
\* (stands for match_count = 15).
MaxCand == 3
\* Most detections YOLO reports in the cropping specification.
MaxDets == 2
\* Most rows / uploads the registration handler may add in one run.
MaxProducts == 2
MaxUuid == 2
MaxEvents == 2
\* Size of the query images, in pixels.
ImgW == 16
ImgH == 14

\* --------------------------------------------------------------- constants

\* Python's None, where a string is expected, and where a list is.
None == "None"
NoBox == <<>>

\* main.py:226  STRICT_THRESHOLD = 0.65   (ten-thousandths)
STRICT_THRESHOLD == 6500
\* ai_engine.py:52  the literal 0.15      (hundredths)
MIN_CONF == 15
\* ai_engine.py:55  padding = 5           (pixels)
padding == 5

Tasks == {"t1", "t2"}

ModelKeys == {"yolo", "siglip", "siglip_pre", "dino_proc", "dino_model"}

Max2(a, b) == IF a >= b THEN a ELSE b
Min2(a, b) == IF a <= b THEN a ELSE b

\* ----------------------------------------------------------------- images

\* An uploaded byte string, as far as the program can tell it apart:
\*   ok    PIL can decode it (Image.open(...).convert("RGB") returns)
\*   id    the pixel content
\*   w, h  the size
\*   dets  what YOLO reports on it, flattened in iteration order:
\*         records [conf, box = <<x1, y1, x2, y2>>]
Image(ok, id, dets) == [ok |-> ok, id |-> id, w |-> ImgW, h |-> ImgH, dets |-> dets]

\* Boxes as ultralytics reports them: clipped to the image, x1 <= x2, y1 <= y2.
Boxes ==
    { <<0, 0, ImgW, ImgH>>,
      <<6, 6, 10, 8>>,
      <<2, 7, ImgW - 2, ImgH>>,
      <<7, 3, 9, ImgH - 6>> }

Confs == {10, 15, 16, 80}

Detections == [conf : Confs, box : Boxes]

RECURSIVE SeqsUpTo(_, _)
SeqsUpTo(S, n) ==
    IF n = 0 THEN {<<>>}
    ELSE LET shorter == SeqsUpTo(S, n - 1)
         IN  shorter \cup {Append(s, x) : s \in {q \in shorter : Len(q) = n - 1}, x \in S}

BadImg == Image(FALSE, "junk", <<>>)
ImgA == Image(TRUE, "a", <<[conf |-> 80, box |-> <<6, 6, 10, 8>>]>>)
ImgB == Image(TRUE, "b", <<>>)

\* The images requests carry in the server specification.
Images == {BadImg, ImgA, ImgB}

\* ------------------------------------------------------- ai_engine.py

\* The loop of smart_crop over the detections: the running (max_conf,
\* best_box), replaced only by a strictly larger confidence.
RECURSIVE ScanDetections(_, _)
ScanDetections(dets, best) ==
    IF dets = <<>> THEN best
    ELSE ScanDetections(Tail(dets),
            IF Head(dets).conf > best.conf
            THEN [conf |-> Head(dets).conf, box |-> Head(dets).box]
            ELSE best)

\* best_box = None, max_conf = 0.0, then the loop.
BestDetection(dets) == ScanDetections(dets, [conf |-> 0, box |-> NoBox])

\* "if best_box and max_conf > 0.15"
PassesFloorInclusive(best) == best.box # NoBox /\ best.conf >= MIN_CONF
PassesFloor(best) == best.box # NoBox /\ best.conf > MIN_CONF

\* The rectangle handed to image.crop, without the clamping.
CropBoxUnclamped(img, box) ==
    <<box[1] - padding, box[2] - padding, box[3] + padding, box[4] + padding>>
\* The rectangle handed to image.crop.
CropBox(img, box) ==
    << Max2(0, box[1] - padding),
       Max2(0, box[2] - padding),
       Min2(img.w, box[3] + padding),
       Min2(img.h, box[4] + padding) >>

WholeImage(img) == <<0, 0, img.w, img.h>>

\* smart_crop(image): the image the pipeline goes on with.
\*   cropped  image.crop was called (a new image), else the argument itself
\*   box      best_box at the return
\*   rect     the region of the original the result shows
smart_crop(img) ==
    LET best == BestDetection(img.dets)
    IN  IF PassesFloor(best)
        THEN [id |-> img.id, w |-> img.w, h |-> img.h, cropped |-> TRUE,
              conf |-> best.conf, box |-> best.box, rect |-> CropBox(img, best.box)]
        ELSE [id |-> img.id, w |-> img.w, h |-> img.h, cropped |-> FALSE,
              conf |-> best.conf, box |-> best.box, rect |-> WholeImage(img)]

\* An image as PIL opened it, never cropped (add_product embeds this one).
Uncropped(img) ==
    [id |-> img.id, w |-> img.w, h |-> img.h, cropped |-> FALSE,
     conf |-> 0, box |-> NoBox, rect |-> WholeImage(img)]

ShowsAll(view) == view.rect = <<0, 0, view.w, view.h>>

\* get_siglip_vector: SigLIP is a fixed function of the pixels shown.
get_siglip_vector(view) ==
    IF view.id = "a"
    THEN (IF ShowsAll(view) THEN <<60, 80, 0>> ELSE <<80, 60, 0>>)
    ELSE <<0, 60, 80>>

\* get_dino_vector: DINOv2 is a fixed function of the pixels shown.
get_dino_vector(view) ==
    IF view.id = "a"
    THEN (IF ShowsAll(view) THEN <<65, 76>> ELSE <<100, 0>>)
    ELSE <<99, 14>>

\* ------------------------------------------------- main.py: process_search

\* JSON text as its tokens: brackets, commas and numerals.
Tok(c) == [tok |-> c, num |-> 0]
Num(x) == [tok |-> "num", num |-> x]

RECURSIVE JsonItems(_)
JsonItems(v) ==
    IF v = <<>> THEN <<>>
    ELSE IF Len(v) = 1 THEN <<Num(v[1])>>
    ELSE <<Num(v[1]), Tok(",")>> \o JsonItems(Tail(v))

\* The JSON text of a list of numbers: [ x1 , x2 ].
JsonText(v) == <<Tok("[")>> \o JsonItems(v) \o <<Tok("]")>>

RECURSIVE Numerals(_)
Numerals(text) ==
    IF text = <<>> THEN <<>>
    ELSE IF Head(text).tok = "num"
         THEN <<Head(text).num>> \o Numerals(Tail(text))
         ELSE Numerals(Tail(text))

\* json.loads on the text of a list: the numbers it holds, in order.
json_loads(text) == Numerals(text)

\* A column value dino_embedding as the store hands it over: a list
\* (kind "list") or a string holding the JSON text of a list (kind "str").
\*   data  the list, text  the string
ListVec(v) == [kind |-> "list", data |-> v, text |-> <<>>]
StrVec(v) == [kind |-> "str", data |-> <<>>, text |-> JsonText(v)]

\* "if isinstance(cand_vec_data, str): cand_vec_data = json.loads(...)"
ParseVec(e) == IF e.kind = "str" THEN json_loads(e.text) ELSE e.data

\* A row of match_products.
Row(name, emb) ==
    [name |-> name, price |-> "10", image_url |-> "img/" \o name, dino_embedding |-> emb]

RECURSIVE Dot(_, _)
\* torch.dot on two vectors of one length.
Dot(u, v) ==
    IF u = <<>> THEN 0 ELSE Head(u) * Head(v) + Dot(Tail(u), Tail(v))

\* torch.dot raises on vectors of different lengths.
CanScore(fine, cand) == Len(ParseVec(cand.dino_embedding)) = Len(fine)

\* One turn of the scoring loop: the dict appended to scored_candidates.
Scored(fine, cand) ==
    [name |-> cand.name, price |-> cand.price, image |-> cand.image_url,
     score |-> Dot(fine, ParseVec(cand.dino_embedding))]

ScoreAll(fine, cands) == [i \in 1..Len(cands) |-> Scored(fine, cands[i])]

RECURSIVE InsertDesc(_, _)
\* x goes behind every element whose score is at least its own.
InsertDesc(s, x) ==
    IF s = <<>> THEN <<x>>
    ELSE IF Head(s).score >= x.score
         THEN <<Head(s)>> \o InsertDesc(Tail(s), x)
         ELSE <<x>> \o s

RECURSIVE InsertDescFront(_, _)
\* x goes in front of the elements of its own score.
InsertDescFront(s, x) ==
    IF s = <<>> THEN <<x>>
    ELSE IF Head(s).score > x.score
         THEN <<Head(s)>> \o InsertDescFront(Tail(s), x)
         ELSE <<x>> \o s

RECURSIVE SortFrom(_, _)
SortFrom(acc, rest) ==
    IF rest = <<>> THEN acc ELSE SortFrom(InsertDesc(acc, Head(rest)), Tail(rest))

RECURSIVE SortFromFront(_, _)
SortFromFront(acc, rest) ==
    IF rest = <<>> THEN acc
    ELSE SortFromFront(InsertDescFront(acc, Head(rest)), Tail(rest))

\* A descending sort that reverses the order of equal scores.
SortByScoreUnstable(s) == SortFromFront(<<>>, s)
\* scored_candidates.sort(key=lambda x: x['score'], reverse=True):
\* list.sort is stable, also with reverse=True.
SortByScore(s) == SortFrom(<<>>, s)

\* round(x, 2) for x in ten-thousandths, in hundredths; a tie goes to the
\* even neighbour.
Round2(x) ==
    LET q == x \div 100
        r == x % 100
    IN  IF r < 50 THEN q
        ELSE IF r > 50 THEN q + 1
        ELSE IF q % 2 = 0 THEN q ELSE q + 1

\* The three dicts process_search returns with found = False ...
DatabaseErrorAsNoMatch == [found |-> FALSE, message |-> "No match found."]
DatabaseError == [found |-> FALSE, error |-> "Database Error"]

NoMatchWithGuess ==
    [found |-> FALSE, message |-> "No match found.", best_guess |-> None, confidence |-> 0]
NoMatch == [found |-> FALSE, message |-> "No match found."]

Unconfirmed(best) ==
    [found |-> FALSE, message |-> "similar, cannot confirm",
     best_guess |-> best.name, confidence |-> Round2(best.score)]

\* ... and the one with found = True.
Found(best) == [found |-> TRUE, product |-> best]

\* The decision with the boundary on the other side.
DecideExclusive(ranked) ==
    LET best_match == ranked[1]
    IN  IF best_match.score <= STRICT_THRESHOLD
        THEN Unconfirmed(best_match)
        ELSE Found(best_match)
\* best_match = scored_candidates[0] and the strict threshold.
Decide(ranked) ==
    LET best_match == ranked[1]
    IN  IF best_match.score < STRICT_THRESHOLD
        THEN Unconfirmed(best_match)
        ELSE Found(best_match)

\* The answers of supabase.rpc("match_products", ...).execute(): the call
\* raises (ok = FALSE) or returns rows (response.data).
RowHi == Row("A", ListVec(<<100, 0>>))
RowLo == Row("B", StrVec(<<0, 100>>))
\* A row whose vector has another width (an embedding of another model).
RowLegacy == Row("C", ListVec(<<100>>))

\* A row without a picture (image_url is NULL or empty).
RowNoImage == [Row("D", ListVec(<<100, 0>>)) EXCEPT !.image_url = ""]

StoreFailure == [ok |-> FALSE, data |-> <<>>]
StoreRows(rows) == [ok |-> TRUE, data |-> rows]

StoreResponses ==
    {StoreFailure} \cup
    {StoreRows(r) : r \in {<<>>, <<RowHi>>, <<RowLo>>, <<RowLo, RowHi>>, <<RowLegacy>>}}

\* The candidate lists of the ranking specification.
RankVecs == {<<65, 76>>, <<64, 77>>, <<53, 86>>, <<100, 0>>}
RankRows ==
    {Row(n, ListVec(v)) : n \in {"A", "B"}, v \in RankVecs}
    \cup {Row("B", StrVec(<<65, 76>>)), RowLegacy}

\* ------------------------------------------------------------ task records

NoImage == Image(FALSE, "none", <<>>)
NoView ==
    [id |-> "none", w |-> 0, h |-> 0, cropped |-> FALSE,
     conf |-> 0, box |-> NoBox, rect |-> <<0, 0, 0, 0>>]
NoResult == [found |-> FALSE, none |-> TRUE]
NoHttp == [status |-> 0]

\* A free slot: no request.
\*   kind    "search" | "fb" | "add": the handler
\*   pc      where the handler stands
\*   img     the bytes it was given
\*   stage   the last stage of process_search entered ("none": not called)
\*   key     add_product: the X-Api-Key header
\*   view    clean_img
\*   qvec    query_vec
\*   store   how the store call went: "none" | "failed" | "empty" | "rows"
\*   calls   how many times supabase.rpc("match_products", ...) was executed
\*   cands   candidates
\*   fine    user_dino_vec
\*   ranked  scored_candidates after the sort
\*   result  what process_search returned
\*   exc     the exception that left process_search / the handler body
\*   http    the HTTP response of /search and /add_product
\*   sent    the Messenger messages sent to the sender, in order
Blank ==
    [kind |-> "none", pc |-> "idle", img |-> NoImage, stage |-> "none", key |-> None,
     view |-> NoView, qvec |-> <<>>, store |-> "none", cands |-> <<>>,
     fine |-> <<>>, ranked |-> <<>>, result |-> NoResult, exc |-> "none",
     http |-> NoHttp, sent |-> <<>>, calls |-> 0]

\* No POST /webhook has been handled yet.
NoHook == [status |-> 0, object |-> "none", events |-> <<>>, sent |-> <<>>]

serverVars == <<phase, models, loadCount, API_SECRET, FB_PAGE_ACCESS_TOKEN>>
storeVars == <<products, bucket>>
hookVars == <<queue, hook>>

\* ------------------------------------------------- main.py: the Messenger task

TextMessage(tag) == [type |-> "text", tag |-> tag]

\* "conf = int(prod['score'] * 100)" and the text with name, price, confidence.
MatchMessage(prod) ==
    [type |-> "text", tag |-> "match_found", name |-> prod.name,
     price |-> prod.price, conf |-> prod.score \div 100]

ImageMessage(url) == [type |-> "image", url |-> url]

\* send_fb_message / send_fb_image: without a page access token they return
\* before the POST to the Graph API; with one, the POST is made (and a
\* failure of it is only printed).
Post(msgs) == IF FB_PAGE_ACCESS_TOKEN = None THEN <<>> ELSE msgs

\* Step 3 of handle_fb_image: the messages sent for a result.
FbReply(r) ==
    IF r.found
    THEN <<MatchMessage(r.product)>> \o
         (IF r.product.image \notin {None, ""}
          THEN <<ImageMessage(r.product.image)>> ELSE <<>>)
    ELSE <<TextMessage("not_sure")>>

\* ------------------------------------------------- how a handler ends

\* process_search returned r to its caller:
\*   search_product returns it (200); handle_fb_image replies to the sender.
Returned(rec, r) ==
    IF rec.kind = "fb"
    THEN [rec EXCEPT !.pc = "done", !.result = r, !.sent = @ \o Post(FbReply(r))]
    ELSE [rec EXCEPT !.pc = "done", !.result = r, !.http = [status |-> 200]]

\* An exception e left process_search (or the body of handle_fb_image):
\*   search_product does not catch it, the framework answers 500;
\*   handle_fb_image catches it and sends the system-error text.
RaisedSilently(rec, e) ==
    IF rec.kind = "fb"
    THEN [rec EXCEPT !.pc = "done", !.exc = e]
    ELSE [rec EXCEPT !.pc = "done", !.exc = e, !.http = [status |-> 500]]
Raised(rec, e) ==
    IF rec.kind = "fb"
    THEN [rec EXCEPT !.pc = "done", !.exc = e,
                     !.sent = @ \o Post(<<TextMessage("system_error")>>)]
    ELSE [rec EXCEPT !.pc = "done", !.exc = e, !.http = [status |-> 500]]

\* ------------------------------------------------- startup (lifespan)

\* The order in which load_models fills the dict.
LoadOrder == <<{"yolo"}, {"siglip", "siglip_pre"}, {"dino_proc"}, {"dino_model"}>>

\* Requests are taken from the moment the lifespan has yielded.
ServingBeforeYield == phase # "failed"
Serving == phase = "serving"

\* lifespan calls load_models().
EnterLoadModels ==
    /\ phase = "startup"
    /\ phase' = "loading"
    /\ loadCount' = loadCount + 1
    /\ UNCHANGED <<models, API_SECRET, FB_PAGE_ACCESS_TOKEN, products, bucket, task,
                 queue, hook>>

\* load_models stores the next model(s).
LoadNext ==
    /\ phase = "loading"
    /\ \E i \in 1..Len(LoadOrder) :
          /\ \A j \in 1..(i - 1) : LoadOrder[j] \subseteq models
          /\ ~(LoadOrder[i] \subseteq models)
          /\ models' = models \cup LoadOrder[i]
    /\ UNCHANGED <<phase, loadCount, API_SECRET, FB_PAGE_ACCESS_TOKEN, products, bucket, task,
                 queue, hook>>

\* A model cannot be loaded (download, memory): the exception leaves
\* load_models and the lifespan, and the server does not start.
LoadFails ==
    /\ phase = "loading"
    /\ models # ModelKeys
    /\ phase' = "failed"
    /\ UNCHANGED <<models, loadCount, API_SECRET, FB_PAGE_ACCESS_TOKEN, products, bucket, task,
                 queue, hook>>

\* load_models has returned; the lifespan yields.
LifespanYield ==
    /\ phase = "loading"
    /\ models = ModelKeys
    /\ phase' = "serving"
    /\ UNCHANGED <<models, loadCount, API_SECRET, FB_PAGE_ACCESS_TOKEN, products, bucket, task,
                 queue, hook>>

\* ------------------------------------------------- requests

\* POST /search: the handler reads the upload and hands process_search to a
\* thread.
SearchRequest(t, img) ==
    /\ Serving
    /\ task[t].pc = "idle"
    /\ task' = [task EXCEPT ![t] = [Blank EXCEPT !.kind = "search", !.pc = "open", !.img = img]]
    /\ UNCHANGED <<serverVars, storeVars, hookVars>>

\* handle_fb_image up to the call of process_search: the "Analyzing" text,
\* then the download, which raises (dl = "neterr"), answers another status
\* than 200 (dl = "status") or delivers the bytes (dl = "ok").
FbImage(t, img, dl) ==
    /\ Serving
    /\ task[t].pc = "idle"
    /\ LET rec == [Blank EXCEPT !.kind = "fb", !.img = img,
                                !.sent = Post(<<TextMessage("analyzing")>>)]
       IN  task' = [task EXCEPT ![t] =
              CASE dl = "neterr" -> Raised(rec, "ConnectionError")
                [] dl = "status" ->
                     [rec EXCEPT !.pc = "done",
                                 !.sent = @ \o Post(<<TextMessage("download_failed")>>)]
                [] OTHER -> [rec EXCEPT !.pc = "open"]]
    /\ UNCHANGED <<serverVars, storeVars>>

\* ------------------------------------------------- main.py: POST /webhook

\* A text as its characters; str.lower() on the letters that occur.
Lower(c) == CASE c = "H" -> "h" [] c = "I" -> "i" [] OTHER -> c
LowerText(text) == [i \in 1..Len(text) |-> Lower(text[i])]
Contains(text, sub) ==
    \E i \in 0..(Len(text) - Len(sub)) : SubSeq(text, i + 1, i + Len(sub)) = sub

\* "hi" in text or "hello" in text, for the lowered text.
Greets(text) ==
    \/ Contains(LowerText(text), <<"h", "i">>)
    \/ Contains(LowerText(text), <<"h", "e", "l", "l", "o">>)

\* An attachment {"type": ..., "payload": {"url": ...}}, the url given by the
\* image behind it.
Attachment(type, img) == [type |-> type, img |-> img]

\* event["message"]: whether the keys "attachments" and "text" are there,
\* and their values.
Message(hasAtts, atts, hasText, text) ==
    [present |-> TRUE, hasAtts |-> hasAtts, atts |-> atts, hasText |-> hasText, text |-> text]
NoMessage ==
    [present |-> FALSE, hasAtts |-> FALSE, atts |-> <<>>, hasText |-> FALSE, text |-> <<>>]

\* A messaging event: whether it has the key "sender", and its message.
Event(sender, message) == [sender |-> sender, message |-> message]

\* The events Messenger delivers: two photos sent with a file and a caption,
\* a file, texts, a delivery receipt, and a photo without sender.
Events ==
    {Event(TRUE, Message(TRUE, <<Attachment("image", ImgA), Attachment("file", NoImage),
                                Attachment("image", ImgB)>>, TRUE, <<"H", "i">>)),
     Event(TRUE, Message(TRUE, <<Attachment("file", NoImage)>>, FALSE, <<>>)),
     Event(TRUE, Message(FALSE, <<>>, TRUE, <<"H", "i">>)),
     Event(TRUE, Message(FALSE, <<>>, TRUE, <<"o", "k">>)),
     Event(TRUE, NoMessage),
     Event(FALSE, Message(TRUE, <<Attachment("image", ImgB)>>, FALSE, <<>>))}

\* The body of a POST /webhook; the messaging lists of its entries, one
\* after the other.
Payload(object, events) == [object |-> object, events |-> events]
Payloads ==
    {Payload("page", ev) : ev \in SeqsUpTo(Events, MaxEvents)}
    \cup {Payload("user", ev) : ev \in SeqsUpTo(Events, 1)}

\* The loop over the attachments: the urls of those of type "image".
RECURSIVE ImageUrlsAnyType(_)
ImageUrlsAnyType(atts) ==
    IF atts = <<>> THEN <<>>
    ELSE <<Head(atts).img>> \o ImageUrlsAnyType(Tail(atts))
RECURSIVE ImageUrls(_)
ImageUrls(atts) ==
    IF atts = <<>> THEN <<>>
    ELSE (IF Head(atts).type = "image" THEN <<Head(atts).img>> ELSE <<>>)
         \o ImageUrls(Tail(atts))

\* What the body of the loop does with one event: the background tasks it
\* adds and the texts it sends itself.
EventTasks(event) ==
    IF ~event.sender THEN <<>>
    ELSE IF event.message.present /\ event.message.hasAtts
    THEN ImageUrls(event.message.atts)
    ELSE <<>>
EventTexts(event) ==
    IF ~event.sender THEN <<>>
    ELSE IF event.message.present /\ event.message.hasAtts THEN <<>>
    ELSE IF event.message.present /\ event.message.hasText /\ Greets(event.message.text)
    THEN <<TextMessage("hello")>>
    ELSE <<>>

\* The loops over entries and events.
RECURSIVE Scheduled(_)
Scheduled(events) ==
    IF events = <<>> THEN <<>>
    ELSE EventTasks(Head(events)) \o Scheduled(Tail(events))
RECURSIVE Greetings(_)
Greetings(events) ==
    IF events = <<>> THEN <<>>
    ELSE EventTexts(Head(events)) \o Greetings(Tail(events))

\* handle_fb_webhook: for a page, the tasks are added and {"status": "ok"}
\* is returned; anything else is answered 404.  Slot t stands for the
\* request with the background tasks of its response.
Webhook(t, payload) ==
    /\ Serving
    /\ task[t].pc = "idle"
    /\ queue[t] = <<>>
    /\ IF payload.object = "page"
       THEN /\ queue' = [queue EXCEPT ![t] = Scheduled(payload.events)]
            /\ hook' = [status |-> 200, object |-> payload.object,
                        events |-> payload.events,
                        sent |-> Post(Greetings(payload.events))]
       ELSE /\ queue' = queue
            /\ hook' = [status |-> 404, object |-> payload.object,
                        events |-> payload.events, sent |-> <<>>]
    /\ UNCHANGED <<serverVars, storeVars, task>>

\* After the response the framework runs the tasks of that response one
\* after the other: the next one starts when the slot is free.
RunBackground(t, dl) ==
    /\ queue[t] # <<>>
    /\ FbImage(t, Head(queue[t]), dl)
    /\ queue' = [queue EXCEPT ![t] = Tail(@)]
    /\ hook' = hook

\* ------------------------------------------------- process_search, by stage

\* Image.open(io.BytesIO(image_bytes)).convert("RGB")
Open(t) ==
    /\ task[t].pc = "open"
    /\ task' = [task EXCEPT ![t] =
          IF task[t].img.ok
          THEN [@ EXCEPT !.pc = "crop", !.stage = "open"]
          ELSE Raised([@ EXCEPT !.stage = "open"], "UnidentifiedImageError")]
    /\ UNCHANGED <<serverVars, storeVars, hookVars>>

\* STAGE 1: clean_img = smart_crop(original_img)
Crop(t) ==
    /\ task[t].pc = "crop"
    /\ task' = [task EXCEPT ![t] =
          IF "yolo" \in models
          THEN [@ EXCEPT !.pc = "siglip", !.stage = "crop", !.view = smart_crop(task[t].img)]
          ELSE Raised([@ EXCEPT !.stage = "crop"], "KeyError")]
    /\ UNCHANGED <<serverVars, storeVars, hookVars>>

\* STAGE 2: query_vec = get_siglip_vector(clean_img)
Siglip(t) ==
    /\ task[t].pc = "siglip"
    /\ task' = [task EXCEPT ![t] =
          IF {"siglip", "siglip_pre"} \subseteq models
          THEN [@ EXCEPT !.pc = "rpc", !.stage = "siglip",
                         !.qvec = get_siglip_vector(task[t].view)]
          ELSE Raised([@ EXCEPT !.stage = "siglip"], "KeyError")]
    /\ UNCHANGED <<serverVars, storeVars, hookVars>>

\* The store call and the two early returns behind it.
RpcFallThrough(t, resp) ==
    /\ task[t].pc = "rpc"
    /\ task' = [task EXCEPT ![t] =
          [@ EXCEPT !.pc = "dino", !.stage = "rpc", !.calls = @ + 1,
                    !.store = IF ~resp.ok THEN "failed"
                              ELSE IF resp.data = <<>> THEN "empty" ELSE "rows",
                    !.cands = resp.data]]
    /\ UNCHANGED <<serverVars, storeVars, hookVars>>
RpcRetry(t, resp) ==
    /\ task[t].pc = "rpc"
    /\ task' = [task EXCEPT ![t] =
          IF ~resp.ok
          THEN IF @.calls < 1
               THEN [@ EXCEPT !.stage = "rpc", !.calls = @ + 1]
               ELSE Returned([@ EXCEPT !.stage = "rpc", !.calls = @ + 1, !.store = "failed"],
                             DatabaseError)
          ELSE IF resp.data = <<>>
          THEN Returned([@ EXCEPT !.stage = "rpc", !.calls = @ + 1, !.store = "empty"],
                        NoMatch)
          ELSE [@ EXCEPT !.pc = "dino", !.stage = "rpc", !.calls = @ + 1,
                         !.store = "rows", !.cands = resp.data]]
    /\ UNCHANGED <<serverVars, storeVars, hookVars>>
Rpc(t, resp) ==
    /\ task[t].pc = "rpc"
    /\ task' = [task EXCEPT ![t] =
          IF ~resp.ok
          THEN Returned([@ EXCEPT !.stage = "rpc", !.calls = @ + 1, !.store = "failed"],
                        DatabaseError)
          ELSE IF resp.data = <<>>
          THEN Returned([@ EXCEPT !.stage = "rpc", !.calls = @ + 1, !.store = "empty"],
                        NoMatch)
          ELSE [@ EXCEPT !.pc = "dino", !.stage = "rpc", !.calls = @ + 1,
                         !.store = "rows", !.cands = resp.data]]
    /\ UNCHANGED <<serverVars, storeVars, hookVars>>

\* STAGE 3: user_dino_vec = torch.tensor(get_dino_vector(clean_img))
DinoSharedImage(t) ==
    /\ task[t].pc = "dino"
    /\ LET last == IF \E u \in Tasks \ {t} : task[u].view # NoView
                   THEN CHOOSE u \in Tasks \ {t} : task[u].view # NoView
                   ELSE t
       IN  task' = [task EXCEPT ![t] =
              [@ EXCEPT !.pc = "rank", !.stage = "dino",
                        !.fine = get_dino_vector(task[last].view)]]
    /\ UNCHANGED <<serverVars, storeVars, hookVars>>
Dino(t) ==
    /\ task[t].pc = "dino"
    /\ task' = [task EXCEPT ![t] =
          IF {"dino_proc", "dino_model"} \subseteq models
          THEN [@ EXCEPT !.pc = "rank", !.stage = "dino",
                         !.fine = get_dino_vector(task[t].view)]
          ELSE Raised([@ EXCEPT !.stage = "dino"], "KeyError")]
    /\ UNCHANGED <<serverVars, storeVars, hookVars>>

\* The scoring loop, the sort and the decision.
Rank(t) ==
    /\ task[t].pc = "rank"
    /\ task' = [task EXCEPT ![t] =
          IF \A i \in 1..Len(@.cands) : CanScore(@.fine, @.cands[i])
          THEN LET ranked == SortByScore(ScoreAll(@.fine, @.cands))
               IN  Returned([@ EXCEPT !.stage = "rank", !.ranked = ranked], Decide(ranked))
          ELSE Raised([@ EXCEPT !.stage = "rank"], "RuntimeError")]
    /\ UNCHANGED <<serverVars, storeVars, hookVars>>

\* The response is out (the background task has ended): the slot is free.
Release(t) ==
    /\ task[t].pc = "done"
    /\ task' = [task EXCEPT ![t] = Blank]
    /\ UNCHANGED <<serverVars, storeVars, hookVars>>

\* ------------------------------------------------- main.py: add_product

Keys == {None, "s3cret", "wrong"}

\* The images the operator registers.
RegImages == {BadImg, ImgA}

\* "if x_api_key != API_SECRET: raise HTTPException(401)": who gets past it.
AuthorizedAnyKey(key) == key # None
Authorized(key) == key = API_SECRET

\* f"{name.replace(' ', '')}_{str(uuid.uuid4())[:8]}.{file_ext}": the product
\* name and the first eight hex digits of a random uuid.
NewFilename(name, uuid) == <<name, uuid>>

\* storage.upload(path, file, {"upsert": "true"}): an object already stored
\* under the path is replaced, otherwise the object is added.
HasObject(objects, file) == \E i \in 1..Len(objects) : objects[i].file = file
Upsert(objects, file, content) ==
    IF HasObject(objects, file)
    THEN [i \in 1..Len(objects) |->
            IF objects[i].file = file
            THEN [file |-> file, content |-> content]
            ELSE objects[i]]
    ELSE Append(objects, [file |-> file, content |-> content])

\* The row add_product inserts: both vectors of the image as opened.
NewProductCropped(name, img, url) ==
    [name |-> name, price |-> "10", image_url |-> url,
     siglip_embedding |-> get_siglip_vector(smart_crop(img)),
     dino_embedding |-> get_dino_vector(smart_crop(img))]
NewProduct(name, img, url) ==
    [name |-> name, price |-> "10", image_url |-> url,
     siglip_embedding |-> get_siglip_vector(Uncropped(img)),
     dino_embedding |-> get_dino_vector(Uncropped(img))]

\* POST /add_product with header key and upload img; uuid is the prefix the
\* random uuid gives, up and ins say whether the storage upload and the table
\* insert go through.  The handler runs on the event loop without yielding
\* between the credential test and the return.
AddProduct(t, key, name, img, uuid, up, ins) ==
    /\ Serving
    /\ task[t].pc = "idle"
    /\ LET rec == [Blank EXCEPT !.kind = "add", !.pc = "done", !.key = key, !.img = img]
           file == NewFilename(name, uuid)
           Fails(e) == task' = [task EXCEPT ![t] = [rec EXCEPT !.exc = e, !.http = [status |-> 500]]]
       IN  IF ~Authorized(key)
           THEN /\ task' = [task EXCEPT ![t] =
                      [rec EXCEPT !.exc = "HTTPException", !.http = [status |-> 401]]]
                /\ UNCHANGED storeVars
           ELSE IF ~img.ok
           THEN Fails("UnidentifiedImageError") /\ UNCHANGED storeVars
           ELSE IF ~up
           THEN Fails("StorageException") /\ UNCHANGED storeVars
           ELSE /\ HasObject(bucket, file) \/ Len(bucket) < MaxProducts
                /\ bucket' = Upsert(bucket, file, img.id)
                /\ IF ~({"siglip", "siglip_pre", "dino_proc", "dino_model"} \subseteq models)
                   THEN Fails("KeyError") /\ UNCHANGED products
                   ELSE IF ~ins
                   THEN Fails("APIError") /\ UNCHANGED products
                   ELSE /\ Len(products) < MaxProducts
                        /\ products' = Append(products, NewProduct(name, img, file))
                        /\ task' = [task EXCEPT ![t] = [rec EXCEPT !.http = [status |-> 200]]]
    /\ UNCHANGED <<serverVars, hookVars>>

\* ------------------------------------------------- the server

\* The process after its imports: config read, the store client created,
\* no model loaded, the lifespan not yet entered.
Init ==
    /\ phase = "startup"
    /\ models = {}
    /\ loadCount = 0
    /\ API_SECRET \in {None, "s3cret"}
    /\ FB_PAGE_ACCESS_TOKEN = "EAAtoken"
    /\ products = <<>>
    /\ bucket = <<>>
    /\ task = [t \in Tasks |-> Blank]
    /\ queue = [t \in Tasks |-> <<>>]
    /\ hook = NoHook

Next ==
    \/ EnterLoadModels
    \/ LoadNext
    \/ LoadFails
    \/ LifespanYield
    \/ \E t \in Tasks, img \in Images : SearchRequest(t, img)
    \/ \E t \in Tasks, img \in Images, dl \in {"ok", "status", "neterr"} :
          FbImage(t, img, dl) /\ UNCHANGED hookVars
    \/ \E t \in Tasks : Open(t)
    \/ \E t \in Tasks : Crop(t)
    \/ \E t \in Tasks : Siglip(t)
    \/ \E t \in Tasks, resp \in StoreResponses : Rpc(t, resp)
    \/ \E t \in Tasks : Dino(t)
    \/ \E t \in Tasks : Rank(t)
    \/ \E t \in Tasks, key \in Keys, img \in RegImages, up \in BOOLEAN, ins \in BOOLEAN :
          AddProduct(t, key, "A", img, Len(bucket) + 1, up, ins)
    \/ \E t \in Tasks : Release(t)

Spec == Init /\ [][Next]_vars

\* ------------------------------------------------- smart_crop on its own

\* A serving process with one request about to be cropped, for every list
\* of detections.
InitCrop ==
    /\ phase = "serving"
    /\ models = ModelKeys
    /\ loadCount = 1
    /\ API_SECRET = None
    /\ FB_PAGE_ACCESS_TOKEN = "EAAtoken"
    /\ products = <<>>
    /\ bucket = <<>>
    /\ queue = [t \in Tasks |-> <<>>]
    /\ hook = NoHook
    /\ \E dets \in SeqsUpTo(Detections, MaxDets) :
          task = [t \in Tasks |->
                    IF t = "t1"
                    THEN [Blank EXCEPT !.kind = "search", !.pc = "crop", !.stage = "open",
                                       !.img = Image(TRUE, "a", dets)]
                    ELSE Blank]

NextCrop == \E t \in Tasks : Crop(t)

SpecCrop == InitCrop /\ [][NextCrop]_vars

\* ------------------------------------------------- the ranking on its own

\* A serving process with one request whose candidates have arrived, for
\* every candidate list and both query images.
InitRank ==
    /\ phase = "serving"
    /\ models = ModelKeys
    /\ loadCount = 1
    /\ API_SECRET = None
    /\ FB_PAGE_ACCESS_TOKEN = "EAAtoken"
    /\ products = <<>>
    /\ bucket = <<>>
    /\ queue = [t \in Tasks |-> <<>>]
    /\ hook = NoHook
    /\ \E img \in {ImgA, ImgB}, cands \in SeqsUpTo(RankRows, MaxCand) \ {<<>>} :
          task = [t \in Tasks |->
                    IF t = "t1"
                    THEN [Blank EXCEPT !.kind = "search", !.pc = "dino", !.stage = "rpc",
                                       !.img = img,
                                       !.view = smart_crop(img),
                                       !.qvec = get_siglip_vector(smart_crop(img)),
                                       !.store = "rows", !.cands = cands]
                    ELSE Blank]

NextRank ==
    \/ \E t \in Tasks : Dino(t)
    \/ \E t \in Tasks : Rank(t)

SpecRank == InitRank /\ [][NextRank]_vars

\* ------------------------------------------------- the catalog on its own

\* A serving process whose operator registers products of one name while
\* searches run; the uuid prefix of a registration is any of MaxUuid values,
\* so that two registrations may draw the same one.
InitCatalog ==
    /\ phase = "serving"
    /\ models = ModelKeys
    /\ loadCount = 1
    /\ API_SECRET = "s3cret"
    /\ FB_PAGE_ACCESS_TOKEN = "EAAtoken"
    /\ products = <<>>
    /\ bucket = <<>>
    /\ task = [t \in Tasks |-> Blank]
    /\ queue = [t \in Tasks |-> <<>>]
    /\ hook = NoHook

NextCatalog ==
    \/ \E t \in Tasks, key \in {"s3cret", "wrong"}, img \in {ImgA, ImgB}, uuid \in 1..MaxUuid,
          up \in BOOLEAN, ins \in BOOLEAN :
          AddProduct(t, key, "A", img, uuid, up, ins)
    \/ \E t \in Tasks : SearchRequest(t, ImgA)
    \/ \E t \in Tasks : Open(t)
    \/ \E t \in Tasks : Crop(t)
    \/ \E t \in Tasks : Siglip(t)
    \/ \E t \in Tasks, resp \in {StoreFailure, StoreRows(<<RowHi>>)} : Rpc(t, resp)
    \/ \E t \in Tasks : Dino(t)
    \/ \E t \in Tasks : Rank(t)
    \/ \E t \in Tasks : Release(t)

SpecCatalog == InitCatalog /\ [][NextCatalog]_vars

\* ------------------------------------------------- the Messenger task on its own

\* A serving process, with or without a page access token in its
\* environment, that handles images sent to the page.
InitBot ==
    /\ phase = "serving"
    /\ models = ModelKeys
    /\ loadCount = 1
    /\ API_SECRET = None
    /\ FB_PAGE_ACCESS_TOKEN \in {None, "EAAtoken"}
    /\ products = <<>>
    /\ bucket = <<>>
    /\ task = [t \in Tasks |-> Blank]
    /\ queue = [t \in Tasks |-> <<>>]
    /\ hook = NoHook

NextBot ==
    \/ \E t \in Tasks, img \in Images, dl \in {"ok", "status", "neterr"} :
          FbImage(t, img, dl) /\ UNCHANGED hookVars
    \/ \E t \in Tasks : Open(t)
    \/ \E t \in Tasks : Crop(t)
    \/ \E t \in Tasks : Siglip(t)
    \/ \E t \in Tasks, resp \in StoreResponses \cup {StoreRows(<<RowNoImage>>)} : Rpc(t, resp)
    \/ \E t \in Tasks : Dino(t)
    \/ \E t \in Tasks : Rank(t)
    \/ \E t \in Tasks : Release(t)

SpecBot == InitBot /\ [][NextBot]_vars

\* ------------------------------------------------- the webhook on its own

\* A serving process with a page access token that receives webhook calls;
\* the downloads of the scheduled tasks are refused, so that no task enters
\* process_search.
InitHook == InitBot /\ FB_PAGE_ACCESS_TOKEN # None

NextHook ==
    \/ \E t \in Tasks, payload \in Payloads : Webhook(t, payload)
    \/ \E t \in Tasks : RunBackground(t, "status")
    \/ \E t \in Tasks : Release(t)

SpecHook == InitHook /\ [][NextHook]_vars

\* ------------------------------------------------- properties

\* The tasks that run the match pipeline, and those through with it.
Pipeline(t) == task[t].kind \in {"search", "fb"}
Finished(t) == Pipeline(t) /\ task[t].pc = "done" /\ task[t].stage # "none"

\* The decision stage was reached: candidates came back and were all scored.
Decided(t) == Finished(t) /\ task[t].store = "rows" /\ task[t].exc = "none"

\* The outcome variants, by the fields the caller sees.
IsFound(r) == r.found /\ DOMAIN r = {"found", "product"}
IsError(r) == ~r.found /\ "error" \in DOMAIN r
IsNotFound(r) == ~r.found /\ "message" \in DOMAIN r /\ "error" \notin DOMAIN r

\* The fine-similarity score of candidate i of task t, and the largest one.
FineScore(t, i) == Dot(task[t].fine, ParseVec(task[t].cands[i].dino_embedding))
TopScore(t) ==
    LET S == {FineScore(t, i) : i \in 1..Len(task[t].cands)}
    IN  CHOOSE m \in S : \A x \in S : m >= x

\* C1: when the decision stage is reached, the outcome is NotFound exactly
\* when the top fine score is strictly below 0.65, and then it carries the
\* name of a top-scored candidate and the top score rounded to the nearest
\* hundredth; otherwise it is Found with a top-scored entry and its score.
C1_ThresholdDecision ==
    \A t \in Tasks : Decided(t) =>
        LET r == task[t].result
            top == TopScore(t)
            n == Len(task[t].cands)
        IN  /\ ~r.found <=> top < STRICT_THRESHOLD
            /\ ~r.found =>
                  /\ IsNotFound(r)
                  /\ {"best_guess", "confidence"} \subseteq DOMAIN r
                  /\ \E i \in 1..n : FineScore(t, i) = top /\ r.best_guess = task[t].cands[i].name
                  /\ 100 * r.confidence - top \in -50..50
            /\ r.found =>
                  /\ IsFound(r)
                  /\ r.product.score = top
                  /\ \E i \in 1..n :
                        /\ FineScore(t, i) = top
                        /\ r.product.name = task[t].cands[i].name
                        /\ r.product.price = task[t].cands[i].price
                        /\ r.product.image = task[t].cands[i].image_url

\* A decision on a top score of exactly 0.65: Found.
C1_Witness ==
    \E t \in Tasks : Decided(t) /\ TopScore(t) = 6500 /\ task[t].result.found

\* C2: every invocation of process_search ends with exactly one MatchResult
\* (Found, NotFound or Error); no exception leaves it.
C2_AlwaysOneResult ==
    \A t \in Tasks : Finished(t) =>
        /\ task[t].exc = "none"
        /\ Cardinality({v \in {"found", "notfound", "error"} :
              \/ v = "found" /\ IsFound(task[t].result)
              \/ v = "notfound" /\ IsNotFound(task[t].result)
              \/ v = "error" /\ IsError(task[t].result)}) = 1

\* C3: a failed store query gives an Error outcome with a reason and no
\* exception, different from every NotFound outcome; a query that returns no
\* rows gives a NotFound outcome that is no Error.
C3_StoreFailureIsError ==
    \A t \in Tasks : Finished(t) =>
        /\ task[t].store = "failed" =>
              /\ task[t].exc = "none"
              /\ IsError(task[t].result)
              /\ task[t].result.error # ""
              /\ \A u \in Tasks :
                    (Finished(u) /\ task[u].exc = "none" /\ task[u].store \in {"empty", "rows"}
                       /\ ~task[u].result.found)
                    => /\ task[u].result # task[t].result
                       /\ "error" \notin DOMAIN task[u].result
        /\ task[t].store = "empty" =>
              /\ task[t].exc = "none"
              /\ IsNotFound(task[t].result)
              /\ ~IsError(task[t].result)

\* One request ended on a failed store query, another on an empty answer.
C3_Witness ==
    \E t, u \in Tasks :
        /\ Finished(t) /\ task[t].store = "failed"
        /\ Finished(u) /\ task[u].store = "empty"

\* A candidate list was scored and its best score was below the threshold.
BelowConfidence(t) == Decided(t) /\ ~task[t].result.found

\* C4: with zero candidates the NotFound result has neither best_guess nor
\* confidence; with candidates below the threshold it has both; so the two
\* kinds of NotFound always differ.
C4_NotFoundKinds ==
    /\ \A t \in Tasks : (Finished(t) /\ task[t].store = "empty") =>
          /\ IsNotFound(task[t].result)
          /\ DOMAIN task[t].result \cap {"best_guess", "confidence"} = {}
    /\ \A t \in Tasks : BelowConfidence(t) =>
          /\ IsNotFound(task[t].result)
          /\ {"best_guess", "confidence"} \subseteq DOMAIN task[t].result
          /\ task[t].result.best_guess \in {task[t].cands[i].name : i \in 1..Len(task[t].cands)}
    /\ \A t, u \in Tasks :
          (Finished(t) /\ task[t].store = "empty" /\ BelowConfidence(u))
          => task[t].result # task[u].result

\* One request ended on zero candidates, another below the threshold.
C4_Witness ==
    \E t, u \in Tasks :
        /\ Finished(t) /\ task[t].store = "empty"
        /\ BelowConfidence(u)

\* The permutations of 1..n.
Perms(n) == {p \in [1..n -> 1..n] : \A i, j \in 1..n : p[i] = p[j] => i = j}

\* The first position of the largest fine score.
FirstTop(t) ==
    CHOOSE k \in 1..Len(task[t].cands) :
        /\ FineScore(t, k) = TopScore(t)
        /\ \A j \in 1..(k - 1) : FineScore(t, j) # TopScore(t)

\* C5: the re-ranked list is a permutation of the candidates, non-increasing
\* in fine score, equal scores in retrieval order; the decision is taken on
\* the first-retrieved candidate of maximal score.
C5_StableRerank ==
    \A t \in Tasks : Decided(t) =>
        LET c == task[t].cands
            n == Len(c)
            R == task[t].ranked
            r == task[t].result
            best == c[FirstTop(t)]
        IN  /\ Len(R) = n
            /\ \E p \in Perms(n) :
                  /\ \A i \in 1..n :
                        /\ R[i].name = c[p[i]].name
                        /\ R[i].price = c[p[i]].price
                        /\ R[i].image = c[p[i]].image_url
                        /\ R[i].score = FineScore(t, p[i])
                  /\ \A i, j \in 1..n : i < j =>
                        /\ R[i].score >= R[j].score
                        /\ R[i].score = R[j].score => p[i] < p[j]
            /\ IF r.found
               THEN r.product.name = best.name /\ r.product.score = TopScore(t)
               ELSE r.best_guess = best.name

\* Two candidates of different names tie for the top score.
C5_Witness ==
    \E t \in Tasks : Decided(t) /\
        \E i, j \in 1..Len(task[t].cands) :
            /\ i < j
            /\ FineScore(t, i) = TopScore(t)
            /\ FineScore(t, j) = TopScore(t)
            /\ task[t].cands[i].name # task[t].cands[j].name

\* C6: an add_product request whose key differs from the configured secret
\* is answered 401 and changes neither the storage bucket nor the products
\* table.
C6_UnauthorizedNoMutation ==
    [][\A t \in Tasks :
          (task[t].pc = "idle" /\ task'[t].kind = "add" /\ task'[t].key # API_SECRET)
          => /\ task'[t].http.status = 401
             /\ products' = products
             /\ bucket' = bucket
             /\ Len(products') = Len(products)]_vars

\* A request with a wrong key was refused while the catalog held a product.
C6_Witness ==
    \E t \in Tasks :
        /\ task[t].kind = "add" /\ task[t].pc = "done"
        /\ API_SECRET = "s3cret" /\ task[t].key = "wrong"
        /\ task[t].http.status = 401
        /\ Len(products) > 0

\* smart_crop has run for task t.
CropDone(t) == Pipeline(t) /\ task[t].view.id # "none"

\* The largest confidence among the detections (of a non-empty list).
MaxConf(dets) ==
    LET S == {dets[i].conf : i \in 1..Len(dets)}
    IN  CHOOSE m \in S : \A x \in S : m >= x

\* What smart_crop did with the detections, given when a box is usable.
LocalizerRule(t, usable) ==
    LET d == task[t].img.dets
        v == task[t].view
    IN  /\ v.cropped <=> (d # <<>> /\ usable[MaxConf(d)])
        /\ v.cropped =>
              /\ v.conf = MaxConf(d)
              /\ v.conf >= 15
              /\ \E i \in 1..Len(d) : d[i].conf = MaxConf(d) /\ d[i].box = v.box
        /\ ~v.cropped => v.rect = <<0, 0, task[t].img.w, task[t].img.h>>

\* C7, as claimed: the detection of maximum confidence is used if and only
\* if its confidence is at least 0.15; otherwise the original image is
\* returned; no box below the floor is ever used.
C7_FloorInclusive ==
    \A t \in Tasks : CropDone(t) =>
        LocalizerRule(t, [c \in Confs \cup {0} |-> c >= 15])

\* C7, amended: the detection of maximum confidence is used if and only if
\* its confidence is strictly above 0.15; with no detection or a maximum of
\* at most 0.15 the original image is returned; no box below the floor is
\* ever used.
C7_FloorExclusive ==
    \A t \in Tasks : CropDone(t) =>
        LocalizerRule(t, [c \in Confs \cup {0} |-> c > 15])

\* Detections whose best confidence is exactly 0.15: the image is not cropped.
C7_Witness ==
    \E t \in Tasks :
        /\ CropDone(t)
        /\ task[t].img.dets # <<>>
        /\ MaxConf(task[t].img.dets) = 15
        /\ ~task[t].view.cropped

\* A coordinate x brought into 0..hi.
ClampTo(x, hi) == IF x < 0 THEN 0 ELSE IF x > hi THEN hi ELSE x

\* C8: the crop rectangle lies within the image and is the selected box
\* grown by 5 px on each side, then clamped to the image.
C8_CropWithinBounds ==
    \A t \in Tasks : (CropDone(t) /\ task[t].view.cropped) =>
        LET b == task[t].view.box
            r == task[t].view.rect
            W == task[t].img.w
            H == task[t].img.h
        IN  /\ 0 <= r[1] /\ r[1] <= r[3] /\ r[3] <= W
            /\ 0 <= r[2] /\ r[2] <= r[4] /\ r[4] <= H
            /\ r = <<ClampTo(b[1] - 5, W), ClampTo(b[2] - 5, H),
                     ClampTo(b[3] + 5, W), ClampTo(b[4] + 5, H)>>

\* A crop that is clamped on the left and at the bottom, not at the top.
C8_Witness ==
    \E t \in Tasks :
        /\ CropDone(t) /\ task[t].view.cropped
        /\ task[t].view.box[1] - 5 < 0 /\ task[t].view.rect[1] = 0
        /\ task[t].view.box[4] + 5 > task[t].img.h /\ task[t].view.rect[4] = task[t].img.h
        /\ task[t].view.rect[2] = task[t].view.box[2] - 5

\* C9: load_models runs once, at startup; while any handler is at work the
\* lifespan has yielded and all models are loaded; nothing loads them again.
C9_InitBeforeServe ==
    /\ loadCount <= 1
    /\ phase = "serving" => (loadCount = 1 /\ models = ModelKeys)
    /\ \A t \in Tasks : task[t].pc # "idle" =>
          /\ phase = "serving"
          /\ loadCount = 1
          /\ models = ModelKeys

\* Both slots busy, one of them through the whole pipeline.
C9_Witness ==
    /\ \A t \in Tasks : task[t].pc # "idle"
    /\ \E t \in Tasks : Decided(t)
    /\ loadCount = 1

\* The malformed upload reached the handler's Image.open.
Ingested(t) ==
    /\ task[t].pc = "done" /\ ~task[t].img.ok
    /\ \/ Finished(t)
       \/ task[t].kind = "add" /\ task[t].key = API_SECRET

\* C10: a malformed image is caught at ingestion and answered with an
\* input-validation failure (a 4xx response; for the Messenger task a
\* failure text), no exception leaves the handler, the process keeps
\* serving and the store is as before.
C10_MalformedImageRejected ==
    \A t \in Tasks : Ingested(t) =>
        /\ phase = "serving"
        /\ task[t].kind \in {"search", "add"} =>
              /\ task[t].http.status \in 400..499
              /\ task[t].exc = "none"
        /\ task[t].kind = "fb" =>
              task[t].sent[Len(task[t].sent)].tag = "system_error"

\* The image the public reference url resolves to.
ImageAt(objects, url) ==
    LET i == CHOOSE i \in 1..Len(objects) : objects[i].file = url
    IN  objects[i].content

\* The rows of the table stay as they are and where they are.
RowsKept ==
    /\ Len(products') >= Len(products)
    /\ \A i \in 1..Len(products) : products'[i] = products[i]

\* C11: the catalog is append-only and its entries are immutable: every step
\* keeps each existing row (name, price, both embeddings) and the image its
\* reference resolves to; a step of a search leaves table and bucket
\* unchanged; a registration answered 200 adds exactly one row.
C11_CatalogAppendOnly ==
    [][/\ RowsKept
       /\ \A i \in 1..Len(products) :
             ImageAt(bucket', products[i].image_url) = ImageAt(bucket, products[i].image_url)
       /\ \A t \in Tasks :
             /\ (task'[t] # task[t] /\ task'[t].kind \in {"search", "fb"})
                   => UNCHANGED storeVars
             /\ (task[t].pc = "idle" /\ task'[t].kind = "add" /\ task'[t].http.status = 200)
                   => Len(products') = Len(products) + 1]_vars

\* What does hold: the rows of the table are append-only and searches write
\* nothing; only the stored image behind a reference can change.
C11_RowsAppendOnly ==
    [][/\ RowsKept
       /\ \A t \in Tasks :
             /\ (task'[t] # task[t] /\ task'[t].kind \in {"search", "fb"})
                   => UNCHANGED storeVars
             /\ (task[t].pc = "idle" /\ task'[t].kind = "add" /\ task'[t].http.status = 200)
                   => Len(products') = Len(products) + 1]_vars

\* The stages of process_search in the order of its statements.
StageOrder == <<"none", "open", "crop", "siglip", "rpc", "dino", "rank">>
StageNo(s) == CHOOSE i \in 1..Len(StageOrder) : StageOrder[i] = s

\* What the stages entered so far have left in the locals of task t: the
\* crop precedes both embeddings, both embed the cropped image, the store is
\* asked with the coarse vector before the fine one exists, and the fine
\* stages are entered only on a non-empty answer of the store.
StagesConsistent(rec) ==
    LET n == StageNo(rec.stage)
    IN  /\ (rec.view # NoView) => n >= StageNo("crop")
        /\ (rec.qvec # <<>>) =>
              n >= StageNo("siglip") /\ rec.view # NoView
              /\ rec.qvec = get_siglip_vector(rec.view)
        /\ (rec.store # "none") => n >= StageNo("rpc") /\ rec.qvec # <<>>
        /\ (rec.fine # <<>>) =>
              n >= StageNo("dino") /\ rec.fine = get_dino_vector(rec.view)
        /\ n >= StageNo("dino") => rec.store = "rows" /\ rec.cands # <<>>
        /\ (rec.ranked # <<>> \/ (rec.pc = "done" /\ rec.store = "rows" /\ rec.exc = "none"))
              => rec.stage = "rank" /\ rec.fine # <<>>
        /\ rec.store \in {"failed", "empty"} =>
              rec.stage = "rpc" /\ rec.pc = "done" /\ rec.fine = <<>> /\ rec.ranked = <<>>

\* C12: one invocation passes the stages in the strict order crop, coarse
\* embedding, store query, fine embedding and scoring, decision: every step
\* of a request enters the stage right after the one it was in, the coarse
\* and the fine embedding are taken of the same cropped image, and the fine
\* verifier is never entered after a failed or empty store answer.
C12_StagesInOrder ==
    [][\A t \in Tasks : task'[t].kind \in {"search", "fb"} =>
          /\ task'[t].stage # task[t].stage
                => /\ task[t].kind = task'[t].kind
                   /\ StageNo(task'[t].stage) = StageNo(task[t].stage) + 1
          /\ task'[t].view # task[t].view
                => task'[t].stage = "crop" /\ task'[t].view = smart_crop(task[t].img)
          /\ StagesConsistent(task'[t])]_vars

\* One request went through all stages on a cropped image while another
\* ended at a failed store call.
C12_Witness ==
    \E t, u \in Tasks :
        /\ Decided(t) /\ task[t].stage = "rank" /\ task[t].view.cropped
        /\ Finished(u) /\ task[u].store = "failed" /\ task[u].fine = <<>>

\* C13: one invocation executes the store query at most once; a failed
\* query ends the invocation at once with an Error outcome and is not tried
\* again; every step of an invocation enters a later stage than the one it
\* was in, so no stage is ever repeated.
C13_NoRetry ==
    [][\A t \in Tasks : task'[t].kind \in {"search", "fb"} =>
          /\ task'[t].calls <= 1
          /\ task'[t].calls = IF StageNo(task'[t].stage) >= StageNo("rpc") THEN 1 ELSE 0
          /\ task'[t].store = "failed" =>
                /\ task'[t].pc = "done"
                /\ IsError(task'[t].result)
                /\ task'[t].exc = "none"
          /\ (task'[t] # task[t] /\ task[t].pc # "idle") =>
                StageNo(task'[t].stage) > StageNo(task[t].stage)]_vars

\* A store call failed and the invocation ended with an Error after that
\* one call.
C13_Witness ==
    \E t \in Tasks :
        /\ Finished(t) /\ task[t].store = "failed" /\ task[t].calls = 1
        /\ IsError(task[t].result)

\* process_search run alone, from the image to the outcome, given how the
\* store answers: the exception that leaves it, or the dict it returns.
Alone(img, store, cands) ==
    IF ~img.ok
    THEN [exc |-> "UnidentifiedImageError", result |-> NoResult]
    ELSE IF store = "failed"
    THEN [exc |-> "none", result |-> DatabaseError]
    ELSE IF store = "empty"
    THEN [exc |-> "none", result |-> NoMatch]
    ELSE LET fine == get_dino_vector(smart_crop(img))
         IN  IF \A i \in 1..Len(cands) : CanScore(fine, cands[i])
             THEN [exc |-> "none", result |-> Decide(SortByScore(ScoreAll(fine, cands)))]
             ELSE [exc |-> "RuntimeError", result |-> NoResult]

Inside(t, m) ==
    /\ task[t].kind \in {"search", "fb"}
    /\ \/ m = "yolo" /\ task[t].pc = "crop"
       \/ m = "siglip" /\ task[t].pc = "siglip"
       \/ m = "dino_model" /\ task[t].pc = "dino"

\* C15: access to each model instance is serialized: no two requests are
\* inside inference on the same model at the same time.
C15_SerializedInference ==
    \A t, u \in Tasks : \A m \in {"yolo", "siglip", "dino_model"} :
        t # u => ~(Inside(t, m) /\ Inside(u, m))

\* C16: a registration request that carries no credential at all is never
\* authorized, whatever the configured secret, also when none is configured:
\* it is answered 401.
C16_NoCredentialRefused ==
    \A t \in Tasks :
        (task[t].kind = "add" /\ task[t].pc = "done" /\ task[t].key = None)
        => task[t].http.status = 401 /\ task[t].exc = "HTTPException"

\* C18: registration bypasses the localizer: add_product never calls
\* smart_crop, and both vectors of the row it inserts are those of the
\* uncropped registration image; every query is cropped by smart_crop
\* before either embedding, and both embeddings are taken of that crop.
C18_RegistrationUncropped ==
    [][\A t \in Tasks :
          /\ (task[t].pc = "idle" /\ task'[t].kind = "add") =>
                /\ task'[t].view = NoView /\ task'[t].stage = "none"
                /\ task'[t].http.status = 200 <=> Len(products') = Len(products) + 1
                /\ Len(products') > Len(products) =>
                      LET row == products'[Len(products')]
                          whole == Uncropped(task'[t].img)
                      IN  /\ ShowsAll(whole) /\ ~whole.cropped
                          /\ row.siglip_embedding = get_siglip_vector(whole)
                          /\ row.dino_embedding = get_dino_vector(whole)
          /\ task'[t].kind \in {"search", "fb"} =>
                /\ (task'[t].qvec # <<>> \/ task'[t].fine # <<>>) =>
                      task'[t].view = smart_crop(task'[t].img)
                /\ task'[t].qvec # <<>> =>
                      task'[t].qvec = get_siglip_vector(smart_crop(task'[t].img))
                /\ task'[t].fine # <<>> =>
                      task'[t].fine = get_dino_vector(smart_crop(task'[t].img))]_vars

\* An image was registered, and a query on the very same image was cropped:
\* the fine vectors of the new row and of the query differ.
C18_Witness ==
    \E t, u \in Tasks :
        /\ task[u].kind = "add" /\ task[u].http.status = 200 /\ Len(products) = 1
        /\ task[t].kind \in {"search", "fb"} /\ task[t].fine # <<>>
        /\ task[t].img = task[u].img
        /\ task[t].view.cropped
        /\ task[t].fine # products[1].dino_embedding

\* handle_fb_image has ended for task t.
FbDone(t) == task[t].kind = "fb" /\ task[t].pc = "done"

\* What was sent to the sender after the "Analyzing" text.
AfterAnalyzing(t) == IF task[t].sent = <<>> THEN <<>> ELSE Tail(task[t].sent)

\* C17: the notification relay treats the three outcome variants distinctly:
\* an Error outcome is never reported to the chat user with the messages a
\* NotFound outcome is reported with.
C17_ErrorToldApart ==
    \A t, u \in Tasks :
        (/\ FbDone(t) /\ FbDone(u) /\ FB_PAGE_ACCESS_TOKEN # None
         /\ task[t].exc = "none" /\ task[u].exc = "none"
         /\ IsError(task[t].result) /\ IsNotFound(task[u].result))
        => AfterAnalyzing(t) # AfterAnalyzing(u)

\* The texts that report an outcome of handle_fb_image.
FinalTags == {"match_found", "not_sure", "download_failed", "system_error"}
IsFinal(msg) == msg.type = "text" /\ msg.tag \in FinalTags

\* The messages of one handle_fb_image: "Analyzing" first; once the task has
\* ended, exactly one outcome text right after it; the reference image only
\* as a third message, after the match-found text of a Found outcome.
ReplySequence(rec) ==
    LET sent == rec.sent
    IN  /\ Len(sent) >= 1
        /\ sent[1] = TextMessage("analyzing")
        /\ rec.pc # "done" => Len(sent) = 1
        /\ rec.pc = "done" =>
              /\ Len(sent) \in {2, 3}
              /\ IsFinal(sent[2])
              /\ Cardinality({i \in 1..Len(sent) : IsFinal(sent[i])}) = 1
              /\ sent[2].tag = "match_found" <=> (rec.exc = "none" /\ rec.result.found)
              /\ sent[2].tag = "system_error" <=> rec.exc # "none"
              /\ sent[2].tag = "download_failed" <=> (rec.exc = "none" /\ rec.stage = "none")
              /\ Len(sent) = 3 =>
                    /\ sent[2].tag = "match_found"
                    /\ IsFound(rec.result)
                    /\ sent[3] = ImageMessage(rec.result.product.image)

\* C19 as stated: every handle_fb_image sends "Analyzing" first and then
\* exactly one outcome text (match found, not sure, could not download,
\* system error), the reference image only after the match-found text of a
\* Found outcome; never two outcome texts and never none.
C19_OneFinalMessage ==
    \A t \in Tasks : task[t].kind = "fb" => ReplySequence(task[t])

\* C19, amended: with a page access token configured the messages are as
\* stated; without one, handle_fb_image sends no message at all.
C19_OneFinalMessageWithToken ==
    \A t \in Tasks : task[t].kind = "fb" =>
        IF FB_PAGE_ACCESS_TOKEN # None
        THEN ReplySequence(task[t])
        ELSE task[t].sent = <<>>

\* With a token: one task answered a match with text and picture, another
\* ended in the system-error text.
C19_Witness ==
    \E t, u \in Tasks :
        /\ FB_PAGE_ACCESS_TOKEN # None
        /\ FbDone(t) /\ Len(task[t].sent) = 3 /\ task[t].sent[3].type = "image"
        /\ FbDone(u) /\ task[u].exc # "none" /\ Len(task[u].sent) = 2

\* A step of handle_fb_webhook: a response is recorded or tasks are added.
WebhookStep ==
    \/ hook' # hook
    \/ \E t \in Tasks : Len(queue'[t]) > Len(queue[t])

\* The image attachments of the events that have a sender, as places
\* <<event, attachment>> in the body.
ImagePlaces(events) ==
    UNION {{<<i, j>> : j \in {k \in 1..Len(events[i].message.atts) :
                                events[i].message.atts[k].type = "image"}} :
           i \in {n \in 1..Len(events) :
                     /\ events[n].sender
                     /\ events[n].message.present /\ events[n].message.hasAtts}}

\* The tasks in list q are one per place of ps, with the image of the place.
OnePerPlace(q, events, ps) ==
    /\ Len(q) = Cardinality(ps)
    /\ \A img \in Images :
          Cardinality({k \in 1..Len(q) : q[k] = img})
             = Cardinality({p \in ps : events[p[1]].message.atts[p[2]].img = img})

====
